---- MODULE Spec2Model ----
(***************************************************************************)
(* A model of the `contours` package: the three output formatters of       *)
(* contours/core.py, the ContourMixin facade (contour, filled_contour) and *)
(* the QuadContourGenerator constructors of contours/quad.py.              *)
(*                                                                         *)
(* Encoding of Python values                                               *)
(*   None / Some(v)   <<>> / <<v>>                                         *)
(*   a number object  [type |-> "int" | "float" | "complex" | ..., v |-> n]*)
(*   an (N,2) array   a sequence of points <<x, y>>                        *)
(*   array indices    0-based, as in the source                            *)
(*   a call's outcome [err |-> "none" | <exception class>, val |-> ...]    *)
(* Floating point numbers are modelled by integers; the greatest finite    *)
(* float64 is the greatest number of the model's number domain.            *)
(***************************************************************************)
EXTENDS Integers, Sequences, FiniteSets, TLC

VARIABLES
    gen,      \* the QuadContourGenerator object (or the failed construction)
    calls,    \* how often the external collaborators were invoked
    last,     \* the last public call: its arguments, what it passed on, its outcome
    fmtIn,    \* a formatter's arguments (level, vertices, codes)
    fmtOut,   \* the formatter applied to fmtIn, and what it returned or raised
    py        \* the interpreter the package runs on

vars == <<gen, calls, last, fmtIn, fmtOut, py>>

----------------------------------------------------------------------------
(* Bounds of the model *)

\* vertex arrays (paths) of a filled contour
MaxPairs == 2
\* rings of a filled contour, over all its vertex arrays
MaxRings == 3
\* vertices of one non-degenerate ring, the closing vertex included
MaxRingLen == 4
\* vertex arrays of a line contour
MaxLines == 3
\* the greatest finite number of the model's number domain
FloatLimit == 9

----------------------------------------------------------------------------
(* Python helpers *)

None == <<>>

Some(v) == <<v>>

Min(a, b) == IF a < b THEN a ELSE b

\* Python's a[start:stop] on a sequence, 0-based, for 0 <= start
Slice(a, start, stop) ==
    IF Min(stop, Len(a)) <= start THEN <<>>
    ELSE SubSeq(a, start + 1, Min(stop, Len(a)))

\* zip(a, b): pairs up to the shorter argument
Zip(a, b) == [i \in 1..Min(Len(a), Len(b)) |-> <<a[i], b[i]>>]

RECURSIVE Concat(_)
\* the concatenation of a sequence of sequences
Concat(ss) == IF ss = <<>> THEN <<>> ELSE Head(ss) \o Concat(Tail(ss))

RECURSIVE SumSeq(_)
SumSeq(s) == IF s = <<>> THEN 0 ELSE Head(s) + SumSeq(Tail(s))

\* the interpreters the package declares (setup.py), and the first one after them
Interps == {"py27", "py36", "py37"}

\* Python 2 leaves a list comprehension's loop variables in the enclosing scope
ListCompLeaks(interp) == interp = "py27"

\* Python 3 iterators have __next__; Python 2 iterators have next
HasDunderNext(interp) == interp # "py27"

\* PEP 479 (on from 3.7): StopIteration raised inside a generator becomes RuntimeError
Pep479(interp) == interp = "py37"

----------------------------------------------------------------------------
(* contours/core.py: MPLPATHCODE *)

STOP == 0

MOVETO == 1

LINETO == 2

CURVE3 == 3

CURVE4 == 4

CLOSEPOLY == 79

----------------------------------------------------------------------------
(* Number objects *)

Num(n) == [type |-> "float", v |-> n]

PyInt(n) == [type |-> "int", v |-> n]

PyComplex(n) == [type |-> "complex", v |-> n]

PyStr == [type |-> "str", v |-> 0]

PyNone == [type |-> "NoneType", v |-> 0]

\* isinstance(o, numbers.Number): int and bool, float, complex are registered
IsNumber(o) == o.type \in {"int", "bool", "float", "complex"}

\* numpy.finfo(numpy.float64).min and .max
F64Min == Num(-FloatLimit)

F64Max == Num(FloatLimit)

----------------------------------------------------------------------------
(* contours/core.py: null_formatter, numpy_formatter *)

Ok(v) == [err |-> "none", val |-> v]

Raise(e) == [err |-> e, val |-> <<>>]

null_formatter(level, vertices, codes) == Ok(<<level, vertices, codes>>)

RECURSIVE NonzeroFrom(_, _, _)
NonzeroFrom(codes_, c, i) ==
    IF i > Len(codes_) THEN <<>>
    ELSE (IF codes_[i] = c THEN <<i - 1>> ELSE <<>>) \o NonzeroFrom(codes_, c, i + 1)

\* np.nonzero(codes_ == c)[0]: the 0-based indices holding code c, ascending
Nonzero(codes_, c) == NonzeroFrom(codes_, c, 1)

RingSliceOffByOne(vertices_, start, stop) == Slice(vertices_, start, stop)

\* vertices_[start:stop+1, :]
RingSlice(vertices_, start, stop) == Slice(vertices_, start, stop + 1)

\* the rings of one (vertices_, codes_) pair: lines 101-104 and 189-193
PairRings(vertices_, codes_) ==
    LET starts == Nonzero(codes_, MOVETO)
        stops == Nonzero(codes_, CLOSEPOLY)
        spans == Zip(starts, stops)
    IN  [i \in 1..Len(spans) |-> RingSlice(vertices_, spans[i][1], spans[i][2])]

numpy_formatter(level, vertices, codes) ==
    IF codes = None THEN Ok(vertices)
    ELSE LET pairs == Zip(vertices, codes[1])
         IN  Ok(Concat([i \in 1..Len(pairs) |-> PairRings(pairs[i][1], pairs[i][2])]))

----------------------------------------------------------------------------
(* contours/core.py: matlab_formatter *)

\* float(level): the entry a number object becomes in a float64 array
AsFloat(level) == level.v

\* one row of np.vstack(([v.shape[0] for v in vertices], [level]*len(vertices))).T
HeaderRow(count, level) == <<count, AsFloat(level)>>

MatlabLevelUpper(level, codes) == IF codes # None THEN level[2] ELSE level

\* if codes is not None: level = level[0]
MatlabLevel(level, codes) == IF codes # None THEN level[1] ELSE level

RECURSIVE Interleave(_, _, _)
\* list(it.__next__() for it in itertools.cycle((iter(headers), iter(vertices)))):
\* the items drawn in turn from the two iterators (turn 0: headers, turn 1:
\* vertices) until the iterator whose turn it is raises StopIteration.  A header
\* is a (2,) array, which np.vstack stacks as one row.
Interleave(headers, rings, turn) ==
    IF turn = 0
    THEN IF headers = <<>> THEN <<>>
         ELSE << <<Head(headers)>> >> \o Interleave(Tail(headers), rings, 1)
    ELSE IF rings = <<>> THEN <<>>
         ELSE <<Head(rings)>> \o Interleave(headers, Tail(rings), 0)

RECURSIVE Exhausted(_, _, _)
\* the iterator whose __next__ raised StopIteration and so ended the generator
Exhausted(headers, rings, turn) ==
    IF turn = 0
    THEN IF headers = <<>> THEN "headers" ELSE Exhausted(Tail(headers), rings, 1)
    ELSE IF rings = <<>> THEN "vertices" ELSE Exhausted(headers, Tail(rings), 0)

\* np.vstack(items): needs at least one array
VStack(items) == IF items = <<>> THEN Raise("ValueError") ELSE Ok(Concat(items))

matlab_formatter(interp, level, vertices, codes) ==
    LET rings == numpy_formatter(level, vertices, codes).val
        lvl == MatlabLevel(level, codes)
        headers == [i \in 1..Len(rings) |-> HeaderRow(Len(rings[i]), lvl)]
    IN  IF ~HasDunderNext(interp) THEN Raise("AttributeError")
        ELSE IF Pep479(interp) THEN Raise("RuntimeError")
        ELSE VStack(Interleave(headers, rings, 0))

----------------------------------------------------------------------------
(* contours/core.py: shapely_formatter *)

\* from shapely.geometry import LineString, LinearRing, Polygon
ShapelyImports == {"LineString", "LinearRing", "Polygon"}

\* coordinate tuples shapely (1.x, the declared dependency) needs for a ring, a line
RingMinCoords == 3

LineMinCoords == 2

Geom(kind, coords, holes) == [geom |-> kind, coords |-> coords, holes |-> holes]

Point(coord) ==
    IF "Point" \notin ShapelyImports THEN Raise("NameError")
    ELSE Ok(Geom("Point", <<coord>>, <<>>))

LinearRing(coords) ==
    IF Len(coords) < RingMinCoords THEN Raise("ValueError")
    ELSE Ok(Geom("LinearRing", coords, <<>>))

LineString(coords) ==
    IF Len(coords) < LineMinCoords THEN Raise("ValueError")
    ELSE Ok(Geom("LineString", coords, <<>>))

\* Polygon(shell, holes), of LinearRing objects
Polygon(shell, holes) ==
    Ok(Geom("Polygon", shell.coords, [i \in 1..Len(holes) |-> holes[i].coords]))

\* np.all(vertices_[0, :] == vertices_[-1, :])
EndsCoincide(vertices_) ==
    /\ vertices_[1][1] = vertices_[Len(vertices_)][1]
    /\ vertices_[1][2] = vertices_[Len(vertices_)][2]

\* lines 177-186: the geometry of one vertex array of a line contour
ShapelyLine(vertices, vertices_) ==
    IF EndsCoincide(vertices_)
    THEN IF Len(vertices) < 3 THEN Point(vertices_[1])
         ELSE LinearRing(vertices_)
    ELSE LineString(vertices_)

RECURSIVE ShapelyLines(_, _, _)
\* lines 176-186: the loop; an exception ends it
ShapelyLines(vertices, i, elements) ==
    IF i > Len(vertices) THEN Ok(elements)
    ELSE LET g == ShapelyLine(vertices, vertices[i])
         IN  IF g.err # "none" THEN g
             ELSE ShapelyLines(vertices, i + 1, Append(elements, g.val))

PolygonOfNoHoles(rings) ==
    IF rings = <<>> THEN Raise("IndexError")
    ELSE Ok(<<Polygon(rings[1].val, <<>>).val>>)

\* Polygon(rings[0], rings[1:]) of a list of LinearRing calls, none of which raised
PolygonOf(rings) ==
    IF rings = <<>> THEN Raise("IndexError")
    ELSE LET p == Polygon(rings[1].val, [i \in 1..(Len(rings) - 1) |-> rings[i + 1].val])
         IN  Ok(<<p.val>>)

\* lines 195-209: the handler of the ValueError that LinearRing raised on span `bad`
ShapelyDegenerate(interp, vertices_, starts, stops, bad) ==
    LET spans == Zip(starts, stops)
        start == spans[bad][1]
        stop == spans[bad][2]
        kept == SelectSeq(spans, LAMBDA sp : sp[2] >= sp[1] + 2)
        rings == [i \in 1..Len(kept) |-> LinearRing(RingSlice(vertices_, kept[i][1], kept[i][2]))]
    IN  IF ~ListCompLeaks(interp) THEN Raise("NameError")
        ELSE IF stop - start - 1 = 0
        THEN IF stops[1] < starts[1] + 2 THEN Ok(<<>>)
             ELSE PolygonOf(rings)
        ELSE Raise("ValueError")

\* lines 189-209: the polygons (none or one) of one (vertices_, codes_) pair
ShapelyPair(interp, vertices_, codes_) ==
    LET starts == Nonzero(codes_, MOVETO)
        stops == Nonzero(codes_, CLOSEPOLY)
        slices == PairRings(vertices_, codes_)
        rings == [i \in 1..Len(slices) |-> LinearRing(slices[i])]
        failed == {i \in 1..Len(rings) : rings[i].err # "none"}
    IN  IF failed = {} THEN PolygonOf(rings)
        ELSE ShapelyDegenerate(interp, vertices_, starts, stops,
                               CHOOSE i \in failed : \A j \in failed : i <= j)

RECURSIVE ShapelyPairs(_, _, _, _)
\* lines 188-209: the loop; an exception that leaves the handler ends it
ShapelyPairs(interp, pairs, i, elements) ==
    IF i > Len(pairs) THEN Ok(elements)
    ELSE LET p == ShapelyPair(interp, pairs[i][1], pairs[i][2])
         IN  IF p.err # "none" THEN p
             ELSE ShapelyPairs(interp, pairs, i + 1, elements \o p.val)

shapely_formatter(interp, level, vertices, codes) ==
    IF codes = None THEN ShapelyLines(vertices, 1, <<>>)
    ELSE ShapelyPairs(interp, Zip(vertices, codes[1]), 1, <<>>)

----------------------------------------------------------------------------
(* What the external engine hands to a formatter *)

\* the vertex counts a ring of the engine's output may have: a single point
\* (MOVETO and CLOSEPOLY on the same coordinate) or a closed polyline
RingLens == {RingMinCoords - 1} \cup ((RingMinCoords + 1)..MaxRingLen)

\* ring r of vertex array p, of n vertices: the CLOSEPOLY vertex repeats the
\* MOVETO vertex; every other vertex is a coordinate pair of its own
RingVerts(p, r, n) ==
    [i \in 1..n |-> IF i = n THEN <<10 * p + r, 1>> ELSE <<10 * p + r, i>>]

RingCodes(n) ==
    [i \in 1..n |-> IF i = 1 THEN MOVETO ELSE IF i = n THEN CLOSEPOLY ELSE LINETO]

\* the ways to give t rings, in order, to p vertex arrays
Splits(t, p) == {c \in [1..p -> 0..t] : SumSeq(c) = t}

SplitRings(lens, c) ==
    [p \in 1..Len(c) |-> SubSeq(lens, SumSeq(SubSeq(c, 1, p - 1)) + 1,
                                      SumSeq(SubSeq(c, 1, p)))]

\* a filled contour's shape: per vertex array, the vertex counts of its rings
FilledShapes ==
    UNION {{SplitRings(lens, c) : lens \in [1..t -> RingLens], c \in Splits(t, p)} :
           t \in 0..MaxRings, p \in 0..MaxPairs}

\* create_filled_contour's (vertices, codes) of a given shape
FilledOutput(shape) ==
    [vertices |-> [p \in 1..Len(shape) |->
                      Concat([r \in 1..Len(shape[p]) |-> RingVerts(p, r, shape[p][r])])],
     codes |-> [p \in 1..Len(shape) |->
                   Concat([r \in 1..Len(shape[p]) |-> RingCodes(shape[p][r])])]]

\* the vertex arrays a line contour is made of: a single point, a point given
\* twice, open lines (one with equal x at both ends), closed lines
LineArrays ==
    {<< <<0, 0>> >>,
     << <<0, 0>>, <<0, 0>> >>,
     << <<0, 0>>, <<0, 1>> >>,
     << <<0, 0>>, <<0, 1>>, <<1, 1>> >>,
     << <<0, 0>>, <<0, 1>>, <<0, 0>> >>,
     << <<0, 0>>, <<0, 1>>, <<1, 1>>, <<0, 0>> >>}

\* create_contour's vertices
LineOutputs == UNION {[1..n -> LineArrays] : n \in 0..MaxLines}

LineLevels == {Num(-1), Num(2)}

Bands == {<<Num(-1), Num(2)>>, <<F64Min, F64Max>>}

\* (level, vertices, None) of a line contour
LineInputs ==
    {[level |-> l, vertices |-> v, codes |-> None] :
        l \in LineLevels, v \in LineOutputs}

\* ((min, max), vertices, codes) of a filled contour
FilledInputs ==
    {[level |-> b, vertices |-> FilledOutput(s).vertices,
      codes |-> Some(FilledOutput(s).codes)] : b \in Bands, s \in FilledShapes}

----------------------------------------------------------------------------
(* The formatters applied to what the engine hands them *)

NoGen == [state |-> "none"]

NoCalls == [ctor |-> 0, line |-> 0, filled |-> 0, fmt |-> 0]

NoCall == [op |-> "none"]

Idle == [fmt |-> "idle", res |-> Ok(<<>>)]

FmtInit ==
    /\ gen = NoGen
    /\ calls = NoCalls
    /\ last = NoCall
    /\ (fmtIn \in LineInputs \/ fmtIn \in FilledInputs)
    /\ fmtOut = Idle
    /\ py \in Interps

NullFormat ==
    /\ fmtOut = Idle
    /\ fmtOut' = [fmt |-> "null",
                  res |-> null_formatter(fmtIn.level, fmtIn.vertices, fmtIn.codes)]
    /\ UNCHANGED <<gen, calls, last, fmtIn, py>>

NumpyFormat ==
    /\ fmtOut = Idle
    /\ fmtOut' = [fmt |-> "numpy",
                  res |-> numpy_formatter(fmtIn.level, fmtIn.vertices, fmtIn.codes)]
    /\ UNCHANGED <<gen, calls, last, fmtIn, py>>

MatlabFormat ==
    /\ fmtOut = Idle
    /\ fmtOut' = [fmt |-> "matlab",
                  res |-> matlab_formatter(py, fmtIn.level, fmtIn.vertices,
                                           fmtIn.codes)]
    /\ UNCHANGED <<gen, calls, last, fmtIn, py>>

ShapelyFormat ==
    /\ fmtOut = Idle
    /\ fmtOut' = [fmt |-> "shapely",
                  res |-> shapely_formatter(py, fmtIn.level, fmtIn.vertices,
                                            fmtIn.codes)]
    /\ UNCHANGED <<gen, calls, last, fmtIn, py>>

FmtNext == NullFormat \/ NumpyFormat \/ MatlabFormat \/ ShapelyFormat

FmtSpec == FmtInit /\ [][FmtNext]_vars

----------------------------------------------------------------------------
(* The MoveTo...ClosePoly spans of a code array, stated on the codes *)

\* the 0-based indices of code c in codes_
CodeIdx(codes_, c) == {i \in 0..(Len(codes_) - 1) : codes_[i + 1] = c}

\* the i-th smallest element of a set of numbers
Nth(S, i) == CHOOSE x \in S : Cardinality({y \in S : y < x}) = i - 1

SpanCount(codes_) == Cardinality(CodeIdx(codes_, MOVETO))

SpanStart(codes_, i) == Nth(CodeIdx(codes_, MOVETO), i)

SpanStop(codes_, i) == Nth(CodeIdx(codes_, CLOSEPOLY), i)

\* vertices_[start_i .. stop_i], both ends included
SpanRing(vertices_, codes_, i) ==
    [j \in 1..(SpanStop(codes_, i) - SpanStart(codes_, i) + 1) |->
        vertices_[SpanStart(codes_, i) + j]]

SpanLen(codes_, i) == SpanStop(codes_, i) - SpanStart(codes_, i) + 1

RECURSIVE SpansBefore(_, _)
\* the spans of the code arrays before the p-th
SpansBefore(codes, p) ==
    IF p <= 1 THEN 0 ELSE SpanCount(codes[p - 1]) + SpansBefore(codes, p - 1)

----------------------------------------------------------------------------
(* C1: numpy_formatter on a filled contour returns, for every (vertex array,  *)
(* code array) pair with k MoveTo...ClosePoly spans, exactly k rings, the     *)
(* i-th being the vertices from the i-th MoveTo index to the i-th ClosePoly   *)
(* index inclusive; rings come in pair order then span order, and each ring   *)
(* starts and ends on the same coordinate pair.                               *)
C1_NumpyRings ==
    (fmtOut.fmt = "numpy" /\ fmtIn.codes # None) =>
        LET codes == fmtIn.codes[1]
            out == fmtOut.res.val
        IN  /\ fmtOut.res.err = "none"
            /\ Len(out) = SpansBefore(codes, Len(codes) + 1)
            /\ \A p \in 1..Len(codes) : \A i \in 1..SpanCount(codes[p]) :
                LET ring == out[SpansBefore(codes, p) + i]
                IN  /\ ring = SpanRing(fmtIn.vertices[p], codes[p], i)
                    /\ ring[1] = ring[Len(ring)]

\* numpy_formatter has returned three rings taken from two vertex arrays
C1_Witness ==
    /\ fmtOut.fmt = "numpy"
    /\ fmtIn.codes # None
    /\ Len(fmtIn.vertices) = 2
    /\ SpanCount(fmtIn.codes[1][1]) = 2
    /\ SpanCount(fmtIn.codes[1][2]) = 1
    /\ Len(fmtOut.res.val) = 3
    /\ Len(fmtOut.res.val[2]) > RingMinCoords

----------------------------------------------------------------------------
(* The rings matlab_formatter lays out, and where each one's header row is *)

\* the rings of the input: a line contour's vertex arrays, a filled contour's spans
InputRings(in) ==
    IF in.codes = None THEN in.vertices
    ELSE LET codes == in.codes[1]
         IN  Concat([p \in 1..Len(codes) |->
                 [i \in 1..SpanCount(codes[p]) |-> SpanRing(in.vertices[p], codes[p], i)]])

\* the level passed in: the contour's level, a filled contour's lower bound
InputLevel(in) == IF in.codes = None THEN in.level.v ELSE in.level[1].v

RECURSIVE HeaderAt(_, _)
\* the (1-based) row of ring i's header: after i-1 headers and their rings
HeaderAt(rings, i) ==
    IF i <= 1 THEN 1 ELSE HeaderAt(rings, i - 1) + 1 + Len(rings[i - 1])

C11_HeaderLevelFirst ==
    (fmtOut.fmt = "matlab" /\ fmtOut.res.err = "none") =>
        LET rings == InputRings(fmtIn)
        IN  \A i \in 1..Len(rings) :
                fmtOut.res.val[HeaderAt(rings, i)] =
                    <<InputLevel(fmtIn), Len(rings[i])>>

(* C13: for every finite list of rings, zero rings included, the loop that    *)
(* draws in turn from the header iterator and the ring iterator stops exactly  *)
(* when the header iterator is exhausted after the last ring, having drawn     *)
(* every header and every ring exactly once, and matlab_formatter then returns *)
(* the matrix normally.  Stated for the interpreters on which the loop runs as *)
(* written: iterators with __next__, StopIteration ending the generator.       *)
C13_MatlabTerminates ==
    (fmtOut.fmt = "matlab" /\ HasDunderNext(py) /\ ~Pep479(py)) =>
        LET rings == InputRings(fmtIn)
            headers == [i \in 1..Len(rings) |-> <<Len(rings[i]), InputLevel(fmtIn)>>]
            items == Interleave(headers, rings, 0)
        IN  /\ Exhausted(headers, rings, 0) = "headers"
            /\ Len(items) = 2 * Len(rings)
            /\ \A i \in 1..Len(rings) :
                /\ items[2 * i - 1] = <<headers[i]>>
                /\ items[2 * i] = rings[i]
            /\ fmtOut.res.err = "none"
            /\ Len(fmtOut.res.val) = HeaderAt(rings, Len(rings) + 1) - 1

----------------------------------------------------------------------------
(* shapely_formatter on filled contours *)

\* the span is a single point: MOVETO and CLOSEPOLY next to each other
Degenerate(codes_, i) == SpanLen(codes_, i) = 2

\* the polygon of exterior span 1 and the hole spans `holes` (span numbers, in order)
PolygonOfSpans(vertices_, codes_, holes) ==
    Geom("Polygon", SpanRing(vertices_, codes_, 1),
         [h \in 1..Len(holes) |-> SpanRing(vertices_, codes_, holes[h])])

\* the span numbers 2..k of the holes that are not degenerate, in order
RECURSIVE ValidHoles(_, _)
ValidHoles(codes_, i) ==
    IF i > SpanCount(codes_) THEN <<>>
    ELSE (IF Degenerate(codes_, i) THEN <<>> ELSE <<i>>) \o ValidHoles(codes_, i + 1)

\* what the documented policy makes of one pair: no polygon for a degenerate
\* exterior, else the exterior with its non-degenerate holes
PairPolygons(vertices_, codes_) ==
    IF Degenerate(codes_, 1) THEN <<>>
    ELSE <<PolygonOfSpans(vertices_, codes_, ValidHoles(codes_, 2))>>

AllPolygons(in) ==
    Concat([p \in 1..Len(in.vertices) |-> PairPolygons(in.vertices[p], in.codes[1][p])])

EveryPairHasARing(in) == \A p \in 1..Len(in.vertices) : SpanCount(in.codes[1][p]) >= 1

NoDegenerateRing(in) ==
    \A p \in 1..Len(in.vertices) : \A i \in 1..SpanCount(in.codes[1][p]) :
        ~Degenerate(in.codes[1][p], i)

(* C3: shapely_formatter on a filled contour with no degenerate ring returns   *)
(* exactly one polygon per (vertex array, code array) pair, in input order:    *)
(* its exterior is the pair's first MoveTo...ClosePoly ring and its holes are  *)
(* the pair's remaining rings in their original order.                         *)
C3_ShapelyPolygons ==
    (/\ fmtOut.fmt = "shapely"
     /\ fmtIn.codes # None
     /\ EveryPairHasARing(fmtIn)
     /\ NoDegenerateRing(fmtIn)) =>
        LET codes == fmtIn.codes[1]
            out == fmtOut.res.val
        IN  /\ fmtOut.res.err = "none"
            /\ Len(out) = Len(fmtIn.vertices)
            /\ \A p \in 1..Len(out) :
                /\ out[p].geom = "Polygon"
                /\ out[p].coords = SpanRing(fmtIn.vertices[p], codes[p], 1)
                /\ Len(out[p].holes) = SpanCount(codes[p]) - 1
                /\ \A h \in 1..Len(out[p].holes) :
                    out[p].holes[h] = SpanRing(fmtIn.vertices[p], codes[p], h + 1)

\* shapely_formatter has returned two polygons, one of them with a hole
C3_Witness ==
    /\ fmtOut.fmt = "shapely"
    /\ fmtIn.codes # None
    /\ EveryPairHasARing(fmtIn)
    /\ NoDegenerateRing(fmtIn)
    /\ Len(fmtIn.vertices) = 2
    /\ fmtOut.res.err = "none"
    /\ Len(fmtOut.res.val) = 2
    /\ Len(fmtOut.res.val[1].holes) = 1

\* some pair's exterior is degenerate, and no hole of a pair with a valid exterior is
DegenerateExteriorOnly(in) ==
    /\ \E p \in 1..Len(in.vertices) : Degenerate(in.codes[1][p], 1)
    /\ \A p \in 1..Len(in.vertices) :
         ~Degenerate(in.codes[1][p], 1) =>
            \A i \in 2..SpanCount(in.codes[1][p]) : ~Degenerate(in.codes[1][p], i)

(* C4: for a filled contour with a pair whose exterior ring has exactly two    *)
(* vertices, shapely_formatter raises no error, returns no polygon for that    *)
(* pair and still returns the polygons of all other pairs.                     *)
C4_DegenerateExterior ==
    (/\ fmtOut.fmt = "shapely"
     /\ fmtIn.codes # None
     /\ EveryPairHasARing(fmtIn)
     /\ DegenerateExteriorOnly(fmtIn)) =>
        /\ fmtOut.res.err = "none"
        /\ fmtOut.res.val = AllPolygons(fmtIn)

\* some pair has a valid exterior and a degenerate hole, and no exterior is degenerate
DegenerateHoleOnly(in) ==
    /\ \A p \in 1..Len(in.vertices) : ~Degenerate(in.codes[1][p], 1)
    /\ \E p \in 1..Len(in.vertices) : \E i \in 2..SpanCount(in.codes[1][p]) :
         Degenerate(in.codes[1][p], i)

(* C5: for a filled contour with a pair whose exterior ring is valid and one   *)
(* or more of whose hole rings have exactly two vertices, shapely_formatter    *)
(* raises no error and returns for that pair one polygon of the exterior and   *)
(* every non-degenerate hole in original order, wherever in the hole list the  *)
(* degenerate ring is.                                                         *)
C5_DegenerateHole ==
    (/\ fmtOut.fmt = "shapely"
     /\ fmtIn.codes # None
     /\ EveryPairHasARing(fmtIn)
     /\ DegenerateHoleOnly(fmtIn)) =>
        /\ fmtOut.res.err = "none"
        /\ fmtOut.res.val = AllPolygons(fmtIn)

----------------------------------------------------------------------------
(* shapely_formatter on line contours *)

\* the geometry an array is by its own contents
LineClass(vertices_) ==
    IF vertices_[1] = vertices_[Len(vertices_)]
    THEN IF Len(vertices_) < 3 THEN "Point" ELSE "LinearRing"
    ELSE "LineString"

(* C6: shapely_formatter on a line contour classifies each vertex array by its *)
(* own contents: first vertex equal to last and fewer than 3 points, a point;  *)
(* first equal to last and 3 or more points, a closed ring; otherwise an open  *)
(* line.  How many vertex arrays the contour has plays no part.                *)
C6_LineClassification ==
    (fmtOut.fmt = "shapely" /\ fmtIn.codes = None) =>
        /\ fmtOut.res.err = "none"
        /\ Len(fmtOut.res.val) = Len(fmtIn.vertices)
        /\ \A i \in 1..Len(fmtIn.vertices) :
            fmtOut.res.val[i].geom = LineClass(fmtIn.vertices[i])

----------------------------------------------------------------------------
(* contours/quad.py: QuadContourGenerator and its constructors *)

Formatters == {"null", "numpy", "matlab", "shapely"}

\* np.asarray of a sequence, a (rows, cols) nested sequence
Arr1(data) == [ndim |-> 1, shape |-> <<Len(data)>>, data |-> data]

Arr2(data) == [ndim |-> 2, shape |-> <<Len(data), Len(data[1])>>, data |-> data]

\* np.ma.asarray: the array with its mask (None: numpy.ma.nomask)
Masked(a, mask) == [ndim |-> a.ndim, shape |-> a.shape, data |-> a.data, mask |-> mask]

\* z.mask.any()
MaskAny(z) ==
    IF z.ndim = 1 THEN \E i \in 1..Len(z.mask[1]) : z.mask[1][i]
    ELSE \E i \in 1..Len(z.mask[1]) : \E j \in 1..Len(z.mask[1][i]) : z.mask[1][i][j]

\* mask = z.mask if z.mask is not np.ma.nomask and z.mask.any() else None
EngineMask(z) == IF z.mask # None /\ MaskAny(z) THEN z.mask ELSE None

\* _contour.QuadContourGenerator(x, y, z.filled(), mask, True, 0): the handle
EngineHandle(x, y, z) ==
    [x |-> x.data, y |-> y.data, z |-> z.data, mask |-> EngineMask(z),
     corner_mask |-> TRUE, chunk_size |-> 0]

\* the engine's constructor takes two-dimensional arrays only
EngineAccepts(x, y, z) == z.ndim = 2

Built(h, formatter) == [state |-> "built", engine |-> h, formatter |-> formatter]

Failed(e) == [state |-> "failed", err |-> e]

\* a constructor's outcome: the object, and the engine constructor's invocations
Made(g, n) == [gen |-> g, ctor |-> n]

QuadInitEngineFirst(x, y, z, formatter) ==
    IF x.shape # z.shape \/ y.shape # z.shape THEN Made(Failed("TypeError"), 1)
    ELSE IF ~EngineAccepts(x, y, z) THEN Made(Failed("ValueError"), 1)
    ELSE Made(Built(EngineHandle(x, y, z), formatter), 1)

\* QuadContourGenerator.__init__(x, y, z, formatter)
QuadInit(x, y, z, formatter) ==
    IF x.shape # z.shape THEN Made(Failed("TypeError"), 0)
    ELSE IF y.shape # z.shape THEN Made(Failed("TypeError"), 0)
    ELSE IF ~EngineAccepts(x, y, z) THEN Made(Failed("ValueError"), 1)
    ELSE Made(Built(EngineHandle(x, y, z), formatter), 1)

from_curvilinear(x, y, z, formatter) == QuadInit(x, y, z, formatter)

\* y, x = np.meshgrid(y, x, indexing='ij'): (len(y), len(x)) grids, y along the
\* rows and x along the columns
MeshY(y, x) == Arr2([i \in 1..Len(y.data) |-> [j \in 1..Len(x.data) |-> y.data[i]]])

MeshX(y, x) == Arr2([i \in 1..Len(y.data) |-> [j \in 1..Len(x.data) |-> x.data[j]]])

from_rectilinear(x, y, z, formatter) ==
    IF x.ndim # 1 THEN Made(Failed("TypeError"), 0)
    ELSE IF y.ndim # 1 THEN Made(Failed("TypeError"), 0)
    ELSE IF z.ndim # 2 THEN Made(Failed("TypeError"), 0)
    ELSE IF x.shape[1] # z.shape[2] THEN Made(Failed("TypeError"), 0)
    ELSE IF y.shape[1] # z.shape[1] THEN Made(Failed("TypeError"), 0)
    ELSE QuadInit(MeshX(y, x), MeshY(y, x), z, formatter)

\* np.mgrid[start:start+step*n:step] has ceil((stop - start) / step) entries: n
\* for the integer-valued origins and steps of this model
\* np.mgrid[a0:b0:s0, a1:b1:s1][0]: (n0, n1), stepping from a0 by s0 down the rows
MGrid0(a0, s0, n0, n1) == Arr2([i \in 1..n0 |-> [j \in 1..n1 |-> a0 + (i - 1) * s0]])

\* np.mgrid[a0:b0:s0, a1:b1:s1][1]: (n0, n1), stepping from a1 by s1 along the columns
MGrid1(a1, s1, n0, n1) == Arr2([i \in 1..n0 |-> [j \in 1..n1 |-> a1 + (j - 1) * s1]])

from_uniform(z, origin, step, formatter) ==
    IF z.ndim # 2 THEN Made(Failed("TypeError"), 0)
    ELSE IF Len(origin) # 2 THEN Made(Failed("TypeError"), 0)
    ELSE IF Len(step) # 2 THEN Made(Failed("TypeError"), 0)
    ELSE IF \E k \in 1..Len(step) : step[k] = 0 THEN Made(Failed("ValueError"), 0)
    ELSE LET y == MGrid0(origin[1], step[1], z.shape[1], z.shape[2])
             x == MGrid1(origin[2], step[2], z.shape[1], z.shape[2])
         IN  QuadInit(x, y, z, formatter)

----------------------------------------------------------------------------
(* The arguments constructors are called with *)

\* the greatest extent of an array along one axis
MaxDim == 3

\* an array's entries: told apart by `base`, by position
Fill1(n, base) == [i \in 1..n |-> base + i]

Fill2(r, c, base) == [i \in 1..r |-> [j \in 1..c |-> base + 10 * i + j]]

Dims == 2..MaxDim

Arrays(base) ==
    {Arr1(Fill1(n, base)) : n \in Dims}
    \cup {Arr2(Fill2(r, c, base)) : r \in Dims, c \in Dims}

\* a mask with the shape of a: all clear, or set at the first entry
MaskOf(a, first) ==
    IF a.ndim = 1 THEN [i \in 1..a.shape[1] |-> first /\ i = 1]
    ELSE [i \in 1..a.shape[1] |-> [j \in 1..a.shape[2] |-> first /\ i = 1 /\ j = 1]]

ZArrays ==
    {Masked(a, None) : a \in Arrays(0)}
    \cup {Masked(a, Some(MaskOf(a, first))) : a \in Arrays(0), first \in BOOLEAN}

Origins == {<<0>>, <<0, 0>>, <<5, 7>>, <<0, 0, 0>>}

Steps == {<<1>>, <<1, 1>>, <<2, 3>>, <<-1, 2>>, <<0, 1>>, <<1, 0>>, <<1, 1, 1>>}

CtorInit ==
    /\ gen = NoGen
    /\ calls = NoCalls
    /\ last = NoCall
    /\ fmtIn = [level |-> Num(0), vertices |-> <<>>, codes |-> None]
    /\ fmtOut = Idle
    /\ py \in Interps

\* QuadContourGenerator(x, y, z, formatter)
New ==
    /\ gen = NoGen
    /\ \E x \in Arrays(100), y \in Arrays(200), z \in ZArrays, f \in Formatters :
        LET m == QuadInit(x, y, z, f)
        IN  /\ gen' = m.gen
            /\ calls' = [calls EXCEPT !.ctor = @ + m.ctor]
            /\ last' = [op |-> "new", x |-> x, y |-> y, z |-> z, formatter |-> f]
    /\ UNCHANGED <<fmtIn, fmtOut, py>>

FromCurvilinear ==
    /\ gen = NoGen
    /\ \E x \in Arrays(100), y \in Arrays(200), z \in ZArrays, f \in Formatters :
        LET m == from_curvilinear(x, y, z, f)
        IN  /\ gen' = m.gen
            /\ calls' = [calls EXCEPT !.ctor = @ + m.ctor]
            /\ last' = [op |-> "from_curvilinear", x |-> x, y |-> y, z |-> z,
                        formatter |-> f]
    /\ UNCHANGED <<fmtIn, fmtOut, py>>

FromRectilinear ==
    /\ gen = NoGen
    /\ \E x \in Arrays(100), y \in Arrays(200), z \in ZArrays, f \in Formatters :
        LET m == from_rectilinear(x, y, z, f)
        IN  /\ gen' = m.gen
            /\ calls' = [calls EXCEPT !.ctor = @ + m.ctor]
            /\ last' = [op |-> "from_rectilinear", x |-> x, y |-> y, z |-> z,
                        formatter |-> f]
    /\ UNCHANGED <<fmtIn, fmtOut, py>>

FromUniform ==
    /\ gen = NoGen
    /\ \E z \in ZArrays, origin \in Origins, step \in Steps, f \in Formatters :
        LET m == from_uniform(z, origin, step, f)
        IN  /\ gen' = m.gen
            /\ calls' = [calls EXCEPT !.ctor = @ + m.ctor]
            /\ last' = [op |-> "from_uniform", z |-> z, origin |-> origin,
                        step |-> step, formatter |-> f]
    /\ UNCHANGED <<fmtIn, fmtOut, py>>

CtorNext == New \/ FromCurvilinear \/ FromRectilinear \/ FromUniform

CtorSpec == CtorInit /\ [][CtorNext]_vars

----------------------------------------------------------------------------
(* The validation conditions of each construction path, stated on the arguments *)

CtorOps == {"new", "from_curvilinear", "from_rectilinear", "from_uniform"}

\* a stated validation condition of the path taken is violated
ConditionViolated(c) ==
    IF c.op \in {"new", "from_curvilinear"}
    THEN c.x.shape # c.z.shape \/ c.y.shape # c.z.shape
    ELSE IF c.op = "from_rectilinear"
    THEN \/ c.x.ndim # 1
         \/ c.y.ndim # 1
         \/ c.z.ndim # 2
         \/ Len(c.x.data) # Len(c.z.data[1])
         \/ Len(c.y.data) # Len(c.z.data)
    ELSE \/ c.z.ndim # 2
         \/ Len(c.origin) # 2
         \/ Len(c.step) # 2
         \/ \E k \in DOMAIN c.step : c.step[k] = 0

C9_UniformGrid ==
    (last.op = "from_uniform" /\ ~ConditionViolated(last)) =>
        /\ gen.state = "built"
        /\ Len(gen.engine.x) = last.z.shape[1]
        /\ Len(gen.engine.y) = last.z.shape[1]
        /\ \A i \in 1..last.z.shape[1] :
            /\ Len(gen.engine.x[i]) = last.z.shape[2]
            /\ Len(gen.engine.y[i]) = last.z.shape[2]
            /\ \A j \in 1..last.z.shape[2] :
                /\ gen.engine.x[i][j] = last.origin[1] + (j - 1) * last.step[1]
                /\ gen.engine.y[i][j] = last.origin[2] + (i - 1) * last.step[2]

----------------------------------------------------------------------------
(* contours/core.py: ContourMixin.contour, ContourMixin.filled_contour *)

\* self.formatter(level, vertices, codes)
ApplyFormatter(f, interp, level, vertices, codes) ==
    CASE f = "null" -> null_formatter(level, vertices, codes)
      [] f = "numpy" -> numpy_formatter(level, vertices, codes)
      [] f = "matlab" -> matlab_formatter(interp, level, vertices, codes)
      [] f = "shapely" -> shapely_formatter(interp, level, vertices, codes)

\* the engine takes its levels as C doubles: a complex number is a TypeError
EngineTakes(level) == level.type \in {"int", "bool", "float"}

\* what a query did: the engine's and the formatter's invocations with their
\* arguments (None: not invoked), and what the query returned or raised
Did(engineArgs, fmtArgs, res) ==
    [line |-> 0, filled |-> 0, fmt |-> Len(fmtArgs),
     engineArgs |-> engineArgs, fmtArgs |-> fmtArgs, res |-> res]

FmtArgs(level, vertices, codes) ==
    Some([level |-> level, vertices |-> vertices, codes |-> codes])

contourUnchecked(g, interp, level, vertices) ==
    IF ~EngineTakes(level)
    THEN [Did(Some(level), None, Raise("TypeError")) EXCEPT !.line = 1]
    ELSE [Did(Some(level), FmtArgs(level, vertices, None),
              ApplyFormatter(g.formatter, interp, level, vertices, None))
          EXCEPT !.line = 1]

\* a contour that keeps its last result and returns it again for the same level
contourCached(g, interp, level, vertices) ==
    IF last.op = "contour" /\ last.level = level
    THEN Did(None, None, last.did.res)
    ELSE IF ~IsNumber(level) THEN Did(None, None, Raise("TypeError"))
    ELSE IF ~EngineTakes(level)
    THEN [Did(Some(level), None, Raise("TypeError")) EXCEPT !.line = 1]
    ELSE [Did(Some(level), FmtArgs(level, vertices, None),
              ApplyFormatter(g.formatter, interp, level, vertices, None))
          EXCEPT !.line = 1]

\* contour(self, level); `vertices` is what the engine's create_contour returns.
\* The raise at lines 255-257 formats type(level) with '{:s}', which on Python 3
\* is itself a TypeError: either way the call ends in TypeError before line 258.
contour(g, interp, level, vertices) ==
    IF ~IsNumber(level) THEN Did(None, None, Raise("TypeError"))
    ELSE IF ~EngineTakes(level)
    THEN [Did(Some(level), None, Raise("TypeError")) EXCEPT !.line = 1]
    ELSE [Did(Some(level), FmtArgs(level, vertices, None),
              ApplyFormatter(g.formatter, interp, level, vertices, None))
          EXCEPT !.line = 1]

DefaultMinZero(min) == IF min = PyNone THEN Num(0) ELSE min

\* if min is None: min = np.finfo(np.float64).min
DefaultMin(min) == IF min = PyNone THEN F64Min ELSE min

\* if max is None: max = np.finfo(np.float64).max
DefaultMax(max) == IF max = PyNone THEN F64Max ELSE max

\* filled_contour(self, min, max); `out` is what create_filled_contour returns
filled_contour(g, interp, min, max, out) ==
    LET lo == DefaultMin(min)
        hi == DefaultMax(max)
    IN  [Did(Some(<<lo, hi>>), FmtArgs(<<lo, hi>>, out.vertices, Some(out.codes)),
             ApplyFormatter(g.formatter, interp, <<lo, hi>>, out.vertices,
                            Some(out.codes)))
         EXCEPT !.filled = 1]

----------------------------------------------------------------------------
(* A generator and its queries *)

\* queries made of one generator
MaxCalls == 2

\* the grids generators are built from
InitGrids ==
    {[x |-> Arr2(Fill2(2, 2, 100)), y |-> Arr2(Fill2(2, 2, 200)), z |-> z] :
        z \in {Masked(Arr2(Fill2(2, 2, 0)), None),
               Masked(Arr2(Fill2(2, 2, 0)), Some(MaskOf(Arr2(Fill2(2, 2, 0)), TRUE)))}}

LevelArgs == {PyNone, PyStr, PyInt(1), Num(2), PyComplex(1)}

MinArgs == {PyNone, F64Min, Num(-1)}

MaxArgs == {PyNone, F64Max, Num(2)}

\* what the engine returns to a query
QueryLines == {v \in LineOutputs : Len(v) = 0 \/ (Len(v) = 1 /\ Len(v[1]) = 2)}

\* one vertex array: of one ring, of a ring with a single-point hole
QueryShapes ==
    {<< <<RingMinCoords + 1>> >>, << <<RingMinCoords + 1, RingMinCoords - 1>> >>}

Init ==
    /\ \E grid \in InitGrids, f \in Formatters :
        gen = QuadInit(grid.x, grid.y, grid.z, f).gen
    /\ calls = [NoCalls EXCEPT !.ctor = 1]
    /\ last = NoCall
    /\ fmtIn = [level |-> Num(0), vertices |-> <<>>, codes |-> None]
    /\ fmtOut = Idle
    /\ py \in Interps

Tally(did) ==
    [calls EXCEPT !.line = @ + did.line, !.filled = @ + did.filled, !.fmt = @ + did.fmt]

Contour ==
    /\ gen.state = "built"
    /\ calls.line + calls.filled < MaxCalls
    /\ \E level \in LevelArgs, vertices \in QueryLines :
        LET did == contour(gen, py, level, vertices)
        IN  /\ calls' = Tally(did)
            /\ last' = [op |-> "contour", level |-> level,
                        engineOut |-> vertices, did |-> did]
    /\ UNCHANGED <<gen, fmtIn, fmtOut, py>>

FilledContour ==
    /\ gen.state = "built"
    /\ calls.line + calls.filled < MaxCalls
    /\ \E min \in MinArgs, max \in MaxArgs, shape \in QueryShapes :
        LET did == filled_contour(gen, py, min, max, FilledOutput(shape))
        IN  /\ calls' = Tally(did)
            /\ last' = [op |-> "filled_contour", min |-> min, max |-> max,
                        engineOut |-> FilledOutput(shape), did |-> did]
    /\ UNCHANGED <<gen, fmtIn, fmtOut, py>>

Next == Contour \/ FilledContour

Spec == Init /\ [][Next]_vars

----------------------------------------------------------------------------
\* a real number: an integer (a bool among them) or a float
IsReal(o) == o.type \in {"int", "bool", "float"}

(* C7 as stated: for every level that is not a real number contour fails with  *)
(* a type error and neither the engine's line trace nor the formatter is       *)
(* invoked; for every real-number level the engine is called exactly once      *)
(* with that level and the formatter's result is returned.                     *)
C7_RealLevelOnly ==
    last.op = "contour" =>
        IF IsReal(last.level)
        THEN /\ last.did.line = 1
             /\ last.did.engineArgs = Some(last.level)
             /\ last.did.fmtArgs = FmtArgs(last.level, last.engineOut, None)
             /\ last.did.res = ApplyFormatter(gen.formatter, py, last.level,
                                              last.engineOut, None)
        ELSE /\ last.did.res.err = "TypeError"
             /\ last.did.line = 0
             /\ last.did.fmt = 0

(* C7 as amended: for every level that is not a number (an instance of         *)
(* numbers.Number, which a complex number is) contour fails with a type error  *)
(* and neither the engine's line trace nor the formatter is invoked; for every *)
(* number the engine is called exactly once with that level, and whenever the  *)
(* engine returns, the formatter is called once on (level, vertices) and its   *)
(* result is returned.                                                         *)
C7_NumberLevelOnly ==
    last.op = "contour" =>
        IF last.level.type \in {"int", "bool", "float", "complex"}
        THEN /\ last.did.line = 1
             /\ last.did.engineArgs = Some(last.level)
             /\ EngineTakes(last.level) =>
                 /\ last.did.fmt = 1
                 /\ last.did.fmtArgs = FmtArgs(last.level, last.engineOut, None)
                 /\ last.did.res = ApplyFormatter(gen.formatter, py, last.level,
                                                  last.engineOut, None)
        ELSE /\ last.did.res.err = "TypeError"
             /\ last.did.line = 0
             /\ last.did.fmt = 0
             /\ last.did.engineArgs = None

\* contour was given a text level after a query that reached the engine: it
\* raised TypeError and the engine was not invoked again
C7_Witness ==
    /\ last.op = "contour"
    /\ last.level = PyStr
    /\ last.did.res.err = "TypeError"
    /\ last.did.line = 0
    /\ calls.line + calls.filled = 1

\* the bound as filled_contour documents it when it is omitted
ExplicitMin(min) == IF min = PyNone THEN Num(-FloatLimit) ELSE min

ExplicitMax(max) == IF max = PyNone THEN Num(FloatLimit) ELSE max

(* C10: filled_contour with min and/or max omitted does what it does with the  *)
(* omitted bound given as the most negative / most positive 64-bit float: the  *)
(* engine receives the same (min, max), the formatter the same level pair      *)
(* (min, max) with the engine's vertices and codes, and the result is the same *)
C10_FilledDefaults ==
    last.op = "filled_contour" =>
        LET lo == ExplicitMin(last.min)
            hi == ExplicitMax(last.max)
        IN  /\ last.did.filled = 1
            /\ last.did.engineArgs = Some(<<lo, hi>>)
            /\ last.did.fmtArgs = FmtArgs(<<lo, hi>>, last.engineOut.vertices,
                                          Some(last.engineOut.codes))
            /\ last.did = filled_contour(gen, py, lo, hi, last.engineOut)

\* filled_contour() with both bounds omitted has returned the matlab matrix,
\* whose headers carry the most negative float
C10_Witness ==
    /\ last.op = "filled_contour"
    /\ last.min = PyNone
    /\ last.max = PyNone
    /\ gen.formatter = "matlab"
    /\ last.did.res.err = "none"
    /\ last.did.res.val[1][2] = -FloatLimit

----------------------------------------------------------------------------
(* What the last query was asked, and what the engine handed back to it *)

\* the level argument the formatter is due: the level, or the (min, max) pair
QueryLevel ==
    IF last.op = "contour" THEN last.level
    ELSE <<ExplicitMin(last.min), ExplicitMax(last.max)>>

QueryVertices ==
    IF last.op = "contour" THEN last.engineOut ELSE last.engineOut.vertices

QueryCodes ==
    IF last.op = "contour" THEN None ELSE Some(last.engineOut.codes)

\* the last query used the engine and the formatter at most once each; where
\* the formatter ran, it was the generator's formatter on this query's own
\* level and engine output, and the query's outcome is that formatter's; a
\* query that returned used the engine once and the formatter once
QueryOwnWork ==
    last.op # "none" =>
        LET did == last.did
        IN  /\ did.line + did.filled <= 1
            /\ did.fmt <= 1
            /\ did.line = 1 => last.op = "contour"
            /\ did.filled = 1 => last.op = "filled_contour"
            /\ did.fmt = 1 =>
                /\ did.line + did.filled = 1
                /\ did.fmtArgs = FmtArgs(QueryLevel, QueryVertices, QueryCodes)
                /\ did.res = ApplyFormatter(gen.formatter, py, QueryLevel,
                                            QueryVertices, QueryCodes)
            /\ did.res.err = "none" =>
                /\ did.line + did.filled = 1
                /\ did.fmt = 1

(* C12: query purity.  Over any sequence of contour and filled_contour calls   *)
(* on one generator, calls that fail validation included, every call leaves    *)
(* the generator's engine handle and formatter as construction set them and    *)
(* the engine is never built again; each query that returns has invoked the    *)
(* engine exactly once and the formatter chosen at construction exactly once,  *)
(* on that query's own arguments and engine output, so that no earlier query's *)
(* result shows in a later one.                                                *)
C12_QueryPurity ==
    /\ []QueryOwnWork
    /\ [][/\ gen' = gen
          /\ calls'.ctor = calls.ctor
          /\ calls'.line + calls'.filled =
                 calls.line + calls.filled + last'.did.line + last'.did.filled
          /\ calls'.fmt = calls.fmt + last'.did.fmt]_vars

\* a second query of the same operation and arguments as one before it has
\* returned: two engine calls and two formatter calls in all
C12_Witness ==
    /\ gen.state = "built"
    /\ last.op = "contour"
    /\ last.level = Num(2)
    /\ last.did.res.err = "none"
    /\ Len(last.engineOut) = 1
    /\ calls.line = 2
    /\ calls.fmt = 2
    /\ calls.ctor = 1

====
